---- MODULE Spec2Model ----
(***************************************************************************)
(* HTTP/3 demo server (src/src/main.rs) and client (src/src/client.rs).    *)
(*                                                                         *)
(* The server's main task accepts connection attempts and awaits each      *)
(* handshake inline; every established connection gets a spawned session   *)
(* task, every accepted request stream a spawned exchange task.  Each      *)
(* action below is one task's progress from one await to the next; the     *)
(* result of the await (Ok / Err) is the action's input.                   *)
(*                                                                         *)
(* Text that is compared or taken apart (request targets, paths) is a      *)
(* sequence of one-character strings; response bodies are opaque strings.  *)
(***************************************************************************)
EXTENDS Integers, Sequences, FiniteSets, TLC

\* ------------------------------------------------------------------ bounds
\* connection attempts plus request streams that peers other than the client
\* driver make, in total
MaxPeerOps == 3
\* concurrently running client drivers
MaxClients == 2
\* length of the request targets tried against the route table
MaxPathLen == 2
\* request streams one peer opens on one connection when it repeats requests
MaxRepeat == 3

Max(a, b) == IF a >= b THEN a ELSE b
Conns == 1..Max(MaxPeerOps, MaxClients)
Streams == 1..Max(MaxPeerOps - 1, 4)

\* --------------------------------------------------------------- constants
StatusOK == 200
ContentType == "text/plain"
ServerAlpn == {"h3"}
ClientAlpn == {"h3"}
PeerAlpns == {{"h3"}, {"hq-29"}}

PathRoot == <<"/">>
PathTest == <<"/", "t", "e", "s", "t">>
PathHealth == <<"/", "h", "e", "a", "l", "t", "h">>
PathUnknown == <<"/", "u", "n", "k", "n", "o", "w", "n">>

\* client.rs:44 -- the fixed request sequence
ClientPaths == <<PathRoot, PathTest, PathHealth, PathUnknown>>

\* client.rs:49 -- "https://localhost"
UriPrefix == <<"h", "t", "t", "p", "s", ":", "/", "/",
               "l", "o", "c", "a", "l", "h", "o", "s", "t">>

\* ---------------------------------------------------------- pure functions
\* variant: the format string ends in a slash of its own
UriOf_ExtraSlash(path) == UriPrefix \o <<"/">> \o path

\* client.rs:49 -- format!("https://localhost{}", path)
UriOf(path) == UriPrefix \o path

\* least index i >= from with s[i] \in chars, Len(s)+1 when there is none
IndexOfAny(s, chars, from) ==
    LET hits == {i \in from..Len(s) : s[i] \in chars}
    IN  IF hits = {} THEN Len(s) + 1
        ELSE CHOOSE i \in hits : \A j \in hits : i <= j

\* index of the first character after "://"
AuthorityStart(u) ==
    LET marks == {i \in 1..(Len(u) - 2) :
                    u[i] = ":" /\ u[i + 1] = "/" /\ u[i + 2] = "/"}
    IN  IF marks = {} THEN 1
        ELSE (CHOOSE i \in marks : \A j \in marks : i <= j) + 3

\* client.rs:47-52 -- Request::builder().uri(..) parses the text; of its
\* parts the request head carries the path and query as the request target:
\* what follows the authority, up to a fragment; "/" when that is empty
PathAndQuery(u) ==
    LET p == IndexOfAny(u, {"/", "?", "#"}, AuthorityStart(u))
        q == IndexOfAny(u, {"#"}, p)
        raw == SubSeq(u, p, q - 1)
    IN  IF raw = <<>> \/ raw[1] = "?" THEN <<"/">> \o raw ELSE raw

\* main.rs:43 -- req.uri().path(): the request target up to its query
PathOf(t) ==
    LET raw == SubSeq(t, 1, IndexOfAny(t, {"?", "#"}, 1) - 1)
    IN  IF raw = <<>> THEN <<"/">> ELSE raw

\* variant: one trailing slash is dropped before the match
RouteBody_TrimSlash(path) ==
    LET n == Len(path)
        trimmed == IF n > 1 /\ path[n] = "/" THEN SubSeq(path, 1, n - 1) ELSE path
    IN  CASE trimmed = PathRoot   -> "Hello from http3 server"
          [] trimmed = PathTest   -> "Hello from http3 test endpoint"
          [] trimmed = PathHealth -> "hello from http3 health check"
          [] OTHER                -> "404 Not Found"

\* main.rs:43-48 -- the route table, exact match with a catch-all arm
RouteBody(path) ==
    CASE path = PathRoot   -> "Hello from http3 server"
      [] path = PathTest   -> "Hello from http3 test endpoint"
      [] path = PathHealth -> "hello from http3 health check"
      [] OTHER             -> "404 Not Found"

\* main.rs:50-54 -- the response head
HeadersFrame == [type |-> "headers", status |-> StatusOK,
                 ctype |-> ContentType, data |-> ""]
\* main.rs:57 -- one DATA frame carrying the body
DataFrame(b) == [type |-> "data", status |-> 0, ctype |-> "", data |-> b]
\* main.rs:58 -- end of the server->client direction
FinFrame == [type |-> "fin", status |-> 0, ctype |-> "", data |-> ""]

\* -------------------------------------------------------------------- state
VARIABLES
    acceptor,   \* main task: "Accepting" (main.rs:26), "Handshaking" (:27), "Returned"
    hs,         \* the attempt whose handshake main awaits, 0 when none
    incoming,   \* endpoint queue of attempts not yet taken by accept()
    conn,       \* per connection: absent/incoming/handshaking/established/failed/closed
    alpn,       \* per connection: protocol identifiers the client offers
    session,    \* per connection: none/Negotiating/Active/Closed/Panicked/Cancelled
    req,        \* per stream, client side: unopened/open/sent/abandoned
    target,     \* per stream: the request target carried by the request head
    xch,        \* per stream: exchange task position
    rbody,      \* per stream: the exchange's local response_body
    wire,       \* per stream: frames the server has written, in order
    cl          \* per connection: the client driver's task state (client.rs)

vars == <<acceptor, hs, incoming, conn, alpn, session, req, target, xch, rbody, wire, cl>>

serverVars == <<acceptor, hs, incoming, session, xch, rbody, wire>>

\* the lines the client writes to standard output
PrintLine(kind, path, status, body) ==
    [line |-> kind, path |-> path, status |-> status, body |-> body]

ConnectingLine == PrintLine("Connecting", <<>>, 0, <<>>)
ConnectedLine == PrintLine("Connected", <<>>, 0, <<>>)
RequestingLine(path) == PrintLine("Requesting", path, 0, <<>>)
StatusLine(status) == PrintLine("Status", <<>>, status, <<>>)
BodyLine(body) == PrintLine("Body", <<>>, 0, body)
CompletedLine == PrintLine("Completed", <<>>, 0, <<>>)

NoClient == [pc |-> "none", k |-> 0, status |-> 0, body |-> <<>>,
             rd |-> 0, out |-> <<>>]

LiveSession == {"Negotiating", "Active"}
LiveExchange == {"Resolving", "Routing", "SendResponse", "SendData", "Finish"}

\* The spec's names for an exchange's position
ExchangeState(x) ==
    IF x \in {"SendResponse", "SendData", "Finish"} THEN "Responding" ELSE x

Init ==
    /\ acceptor = "Accepting"
    /\ hs = 0
    /\ incoming = <<>>
    /\ conn = [c \in Conns |-> "absent"]
    /\ alpn = [c \in Conns |-> {}]
    /\ session = [c \in Conns |-> "none"]
    /\ req = [c \in Conns |-> [s \in Streams |-> "unopened"]]
    /\ target = [c \in Conns |-> [s \in Streams |-> <<>>]]
    /\ xch = [c \in Conns |-> [s \in Streams |-> "none"]]
    /\ rbody = [c \in Conns |-> [s \in Streams |-> ""]]
    /\ wire = [c \in Conns |-> [s \in Streams |-> <<>>]]
    /\ cl = [c \in Conns |-> NoClient]

\* ------------------------------------------------------------ server: main
\* main.rs:26 -- endpoint.accept().await yields the oldest queued attempt
AcceptConn(c) ==
    /\ acceptor = "Accepting"
    /\ incoming # <<>>
    /\ c = Head(incoming)
    /\ acceptor' = "Handshaking"
    /\ hs' = c
    /\ incoming' = Tail(incoming)
    /\ conn' = [conn EXCEPT ![c] = "handshaking"]
    /\ UNCHANGED <<alpn, session, req, target, xch, rbody, wire, cl>>

\* main.rs:27-28 -- conn.await is Ok: spawn the session task, loop
HandshakeOk(c) ==
    /\ acceptor = "Handshaking"
    /\ hs = c
    /\ alpn[c] \cap ServerAlpn # {}
    /\ acceptor' = "Accepting"
    /\ hs' = 0
    /\ conn' = [conn EXCEPT ![c] = "established"]
    /\ session' = [session EXCEPT ![c] = "Negotiating"]
    /\ UNCHANGED <<incoming, alpn, req, target, xch, rbody, wire, cl>>

\* main.rs:8,27 -- conn.await is Err: `?` returns it from main, and the
\* #[tokio::main] runtime is dropped with main's future, which drops every
\* spawned task at its await; the process ends and its connections with it
HandshakeErr(c) ==
    /\ acceptor = "Handshaking"
    /\ hs = c
    /\ acceptor' = "Returned"
    /\ hs' = 0
    /\ conn' = [d \in Conns |->
                  IF d = c THEN "failed"
                  ELSE IF conn[d] \in {"incoming", "handshaking", "established"}
                       THEN "closed" ELSE conn[d]]
    /\ incoming' = <<>>
    /\ session' = [d \in Conns |->
                     IF session[d] \in LiveSession THEN "Cancelled" ELSE session[d]]
    /\ xch' = [d \in Conns |-> [s \in Streams |->
                 IF xch[d][s] \in LiveExchange THEN "Cancelled" ELSE xch[d][s]]]
    /\ UNCHANGED <<alpn, req, target, rbody, wire, cl>>

\* main.rs:26,68 -- endpoint.accept().await is None (the endpoint is closed or
\* its driver is lost): the while-let ends and main returns Ok(()); the
\* runtime is dropped as above, every spawned task with it
AcceptConnNone ==
    /\ acceptor = "Accepting"
    /\ acceptor' = "Returned"
    /\ hs' = 0
    /\ conn' = [d \in Conns |->
                  IF conn[d] \in {"incoming", "handshaking", "established"}
                  THEN "closed" ELSE conn[d]]
    /\ incoming' = <<>>
    /\ session' = [d \in Conns |->
                     IF session[d] \in LiveSession THEN "Cancelled" ELSE session[d]]
    /\ xch' = [d \in Conns |-> [s \in Streams |->
                 IF xch[d][s] \in LiveExchange THEN "Cancelled" ELSE xch[d][s]]]
    /\ UNCHANGED <<alpn, req, target, rbody, wire, cl>>

\* --------------------------------------------------------- server: session
\* main.rs:29-32 -- h3::server::Connection::new(..).await is Ok
NegotiateOk(c) ==
    /\ session[c] = "Negotiating"
    /\ conn[c] = "established"
    /\ session' = [session EXCEPT ![c] = "Active"]
    /\ UNCHANGED <<acceptor, hs, incoming, conn, alpn, req, target, xch, rbody, wire, cl>>

\* variant: the session is awaited by main instead of spawned, so its panic
\* unwinds main and the runtime with it
NegotiateErr_KillsMain(c) ==
    /\ session[c] = "Negotiating"
    /\ acceptor' = "Returned"
    /\ hs' = 0
    /\ incoming' = <<>>
    /\ session' = [d \in Conns |->
                     IF d = c THEN "Panicked"
                     ELSE IF session[d] \in LiveSession THEN "Cancelled" ELSE session[d]]
    /\ xch' = [d \in Conns |-> [s \in Streams |->
                 IF xch[d][s] \in LiveExchange THEN "Cancelled" ELSE xch[d][s]]]
    /\ conn' = [d \in Conns |->
                  IF conn[d] \in {"incoming", "handshaking", "established"}
                  THEN "closed" ELSE conn[d]]
    /\ UNCHANGED <<alpn, req, target, rbody, wire, cl>>

\* main.rs:29-32 -- it is Err: unwrap() panics inside the spawned task, which
\* ends that task only; the connection it owned is dropped
NegotiateErr(c) ==
    /\ session[c] = "Negotiating"
    /\ session' = [session EXCEPT ![c] = "Panicked"]
    /\ conn' = [conn EXCEPT ![c] = IF conn[c] = "established" THEN "closed" ELSE conn[c]]
    /\ UNCHANGED <<acceptor, hs, incoming, alpn, req, target, xch, rbody, wire, cl>>

\* the next stream of c the session has not yet accepted
NextStream(c) == Cardinality({s \in Streams : xch[c][s] # "none"}) + 1

\* variant: the session takes one stream and never loops
AcceptStream_Once(c) ==
    /\ session[c] = "Active"
    /\ conn[c] = "established"
    /\ NextStream(c) = 1
    /\ req[c][1] # "unopened"
    /\ xch' = [xch EXCEPT ![c][1] = "Resolving"]
    /\ UNCHANGED <<acceptor, hs, incoming, conn, alpn, session, req, target, rbody, wire, cl>>

\* variant: streams are taken as soon as the connection is established,
\* whatever the session is doing
AcceptStream_AnySessionState(c) ==
    /\ session[c] # "none"
    /\ conn[c] = "established"
    /\ NextStream(c) \in Streams
    /\ req[c][NextStream(c)] # "unopened"
    /\ xch' = [xch EXCEPT ![c][NextStream(c)] = "Resolving"]
    /\ UNCHANGED <<acceptor, hs, incoming, conn, alpn, session, req, target, rbody, wire, cl>>

\* variant: the session awaits each exchange before it accepts again
AcceptStream_AwaitsExchange(c) ==
    /\ session[c] = "Active"
    /\ conn[c] = "established"
    /\ NextStream(c) \in Streams
    /\ req[c][NextStream(c)] # "unopened"
    /\ \A s \in Streams : xch[c][s] \notin LiveExchange
    /\ xch' = [xch EXCEPT ![c][NextStream(c)] = "Resolving"]
    /\ UNCHANGED <<acceptor, hs, incoming, conn, alpn, session, req, target, rbody, wire, cl>>

\* main.rs:35-37 -- h3_conn.accept().await is Ok(Some(resolver)): spawn the
\* exchange task and loop
AcceptStream(c) ==
    /\ session[c] = "Active"
    /\ conn[c] = "established"
    /\ NextStream(c) \in Streams
    /\ req[c][NextStream(c)] # "unopened"
    /\ xch' = [xch EXCEPT ![c][NextStream(c)] = "Resolving"]
    /\ UNCHANGED <<acceptor, hs, incoming, conn, alpn, session, req, target, rbody, wire, cl>>

\* main.rs:61 -- Ok(None): the peer closed the connection, break
AcceptNone(c) ==
    /\ session[c] = "Active"
    /\ conn[c] = "closed"
    /\ session' = [session EXCEPT ![c] = "Closed"]
    /\ UNCHANGED <<acceptor, hs, incoming, conn, alpn, req, target, xch, rbody, wire, cl>>

\* main.rs:62 -- Err(_e): break; h3_conn is dropped with the task
AcceptErr(c) ==
    /\ session[c] = "Active"
    /\ session' = [session EXCEPT ![c] = "Closed"]
    /\ conn' = [conn EXCEPT ![c] = IF conn[c] = "established" THEN "closed" ELSE conn[c]]
    /\ UNCHANGED <<acceptor, hs, incoming, alpn, req, target, xch, rbody, wire, cl>>

\* -------------------------------------------------------- server: exchange
\* main.rs:39 -- resolver.resolve_request().await is Ok((req, stream))
ResolveOk(c, s) ==
    /\ xch[c][s] = "Resolving"
    /\ conn[c] = "established"
    /\ req[c][s] \in {"open", "sent"}
    /\ xch' = [xch EXCEPT ![c][s] = "Routing"]
    /\ UNCHANGED <<acceptor, hs, incoming, conn, alpn, session, req, target, rbody, wire, cl>>

\* variant: the exchange is awaited by the session loop instead of spawned,
\* so its panic ends the session too
ExchangePanic_KillsSession(c, s) ==
    /\ xch' = [xch EXCEPT ![c][s] = "Failed"]
    /\ session' = [session EXCEPT ![c] = "Panicked"]
    /\ conn' = [conn EXCEPT ![c] = IF conn[c] = "established" THEN "closed" ELSE conn[c]]
    /\ UNCHANGED <<acceptor, hs, incoming, alpn, req, target, rbody, wire, cl>>

\* an exchange's unwrap() panics: the spawned task ends, nothing else does
ExchangePanic(c, s) ==
    /\ xch' = [xch EXCEPT ![c][s] = "Failed"]
    /\ UNCHANGED <<acceptor, hs, incoming, conn, alpn, session, req, target, rbody, wire, cl>>

\* variant: a failed resolution is answered by closing the stream's send side
ResolveErr_FinishesStream(c, s) ==
    /\ xch[c][s] = "Resolving"
    /\ wire' = [wire EXCEPT ![c][s] = Append(wire[c][s], FinFrame)]
    /\ xch' = [xch EXCEPT ![c][s] = "Failed"]
    /\ UNCHANGED <<acceptor, hs, incoming, conn, alpn, session, req, target, rbody, cl>>

\* main.rs:39 -- it is Err: unwrap() panics
ResolveErr(c, s) ==
    /\ xch[c][s] = "Resolving"
    /\ ExchangePanic(c, s)

\* variant: response_body lives in one place shared by all exchanges
Route_SharedBody(c, s) ==
    /\ xch[c][s] = "Routing"
    /\ rbody' = [d \in Conns |-> [r \in Streams |-> RouteBody(PathOf(target[c][s]))]]
    /\ xch' = [xch EXCEPT ![c][s] = "SendResponse"]
    /\ UNCHANGED <<acceptor, hs, incoming, conn, alpn, session, req, target, wire, cl>>

\* variant: response_body lives in the session task, one place for all the
\* exchanges of a connection
Route_BodyPerConnection(c, s) ==
    /\ xch[c][s] = "Routing"
    /\ rbody' = [rbody EXCEPT ![c] = [r \in Streams |-> RouteBody(PathOf(target[c][s]))]]
    /\ xch' = [xch EXCEPT ![c][s] = "SendResponse"]
    /\ UNCHANGED <<acceptor, hs, incoming, conn, alpn, session, req, target, wire, cl>>

\* main.rs:43-54 -- pick the body by path, build the response head
Route(c, s) ==
    /\ xch[c][s] = "Routing"
    /\ rbody' = [rbody EXCEPT ![c][s] = RouteBody(PathOf(target[c][s]))]
    /\ xch' = [xch EXCEPT ![c][s] = "SendResponse"]
    /\ UNCHANGED <<acceptor, hs, incoming, conn, alpn, session, req, target, wire, cl>>

\* variant: every exchange of a connection writes on the connection's first
\* stream
WriteOk_FirstStream(c, s, f, next) ==
    /\ conn[c] = "established"
    /\ wire' = [wire EXCEPT ![c][1] = Append(wire[c][1], f)]
    /\ xch' = [xch EXCEPT ![c][s] = next]
    /\ UNCHANGED <<acceptor, hs, incoming, conn, alpn, session, req, target, rbody, cl>>

\* a successful write of frame f on the exchange's own stream
WriteOk(c, s, f, next) ==
    /\ conn[c] = "established"
    /\ wire' = [wire EXCEPT ![c][s] = Append(wire[c][s], f)]
    /\ xch' = [xch EXCEPT ![c][s] = next]
    /\ UNCHANGED <<acceptor, hs, incoming, conn, alpn, session, req, target, rbody, cl>>

\* variant: the body is sent where the response head should be
SendResponseOk_BodyFirst(c, s) ==
    /\ xch[c][s] = "SendResponse"
    /\ WriteOk(c, s, DataFrame(rbody[c][s]), "SendData")

\* main.rs:56 -- stream.send_response(response).await
SendResponseOk(c, s) ==
    /\ xch[c][s] = "SendResponse"
    /\ WriteOk(c, s, HeadersFrame, "SendData")

\* variant: the result of send_response is dropped and the body is sent
\* regardless
SendResponseErr_Ignored(c, s) ==
    /\ xch[c][s] = "SendResponse"
    /\ xch' = [xch EXCEPT ![c][s] = "SendData"]
    /\ UNCHANGED <<acceptor, hs, incoming, conn, alpn, session, req, target, rbody, wire, cl>>

SendResponseErr(c, s) ==
    /\ xch[c][s] = "SendResponse"
    /\ ExchangePanic(c, s)

\* variant: the stream is dropped after the body, finish() is never called
SendDataOk_SkipsFinish(c, s) ==
    /\ xch[c][s] = "SendData"
    /\ WriteOk(c, s, DataFrame(rbody[c][s]), "Finished")

\* main.rs:57 -- stream.send_data(Bytes::from(response_body)).await
SendDataOk(c, s) ==
    /\ xch[c][s] = "SendData"
    /\ WriteOk(c, s, DataFrame(rbody[c][s]), "Finish")

SendDataErr(c, s) ==
    /\ xch[c][s] = "SendData"
    /\ ExchangePanic(c, s)

\* main.rs:58 -- stream.finish().await
FinishOk(c, s) ==
    /\ xch[c][s] = "Finish"
    /\ WriteOk(c, s, FinFrame, "Finished")

\* variant: a failed finish sends the whole response again
FinishErr_Resends(c, s) ==
    /\ xch[c][s] = "Finish"
    /\ xch' = [xch EXCEPT ![c][s] = "SendResponse"]
    /\ UNCHANGED <<acceptor, hs, incoming, conn, alpn, session, req, target, rbody, wire, cl>>

FinishErr(c, s) ==
    /\ xch[c][s] = "Finish"
    /\ ExchangePanic(c, s)

\* ------------------------------------------------------- the client driver
\* client.rs:30-32 -- endpoint.connect(..)? starts the attempt
ClientConnect(c) ==
    /\ conn[c] = "absent"
    /\ cl[c].pc = "none"
    /\ c <= MaxClients
    /\ \A d \in Conns : d < c => conn[d] # "absent"
    /\ conn' = [conn EXCEPT ![c] = "incoming"]
    /\ alpn' = [alpn EXCEPT ![c] = ClientAlpn]
    /\ incoming' = IF acceptor = "Returned" THEN incoming ELSE Append(incoming, c)
    /\ cl' = [cl EXCEPT ![c].pc = "connect",
                        ![c].out = Append(cl[c].out, ConnectingLine)]
    /\ UNCHANGED <<acceptor, hs, session, req, target, xch, rbody, wire>>

\* client.rs:30-36 -- the connect future is Ok
ClientConnected(c) ==
    /\ cl[c].pc = "connect"
    /\ conn[c] = "established"
    /\ cl' = [cl EXCEPT ![c].pc = "h3new",
                        ![c].out = Append(cl[c].out, ConnectedLine)]
    /\ UNCHANGED <<serverVars, conn, alpn, req, target>>

\* client.rs:36-52 -- h3::client::new(..).await is Ok; the driver is spawned
\* and the loop starts on the first path
ClientH3New(c) ==
    /\ cl[c].pc = "h3new"
    /\ conn[c] = "established"
    /\ cl' = [cl EXCEPT ![c].pc = "send_request",
                        ![c].k = 1,
                        ![c].out = Append(cl[c].out, RequestingLine(ClientPaths[1]))]
    /\ UNCHANGED <<serverVars, conn, alpn, req, target>>

\* client.rs:46-53 -- the request for the k-th path is sent on a fresh stream
ClientSendRequest(c) ==
    /\ cl[c].pc = "send_request"
    /\ conn[c] = "established"
    /\ cl[c].k \in Streams
    /\ req[c][cl[c].k] = "unopened"
    /\ req' = [req EXCEPT ![c][cl[c].k] = "open"]
    /\ target' = [target EXCEPT ![c][cl[c].k] = PathAndQuery(UriOf(ClientPaths[cl[c].k]))]
    /\ cl' = [cl EXCEPT ![c].pc = "finish"]
    /\ UNCHANGED <<serverVars, conn, alpn>>

\* client.rs:53 -- stream.finish().await is Ok
ClientFinish(c) ==
    /\ cl[c].pc = "finish"
    /\ conn[c] = "established"
    /\ req' = [req EXCEPT ![c][cl[c].k] = "sent"]
    /\ cl' = [cl EXCEPT ![c].pc = "recv_response"]
    /\ UNCHANGED <<serverVars, conn, alpn, target>>

\* variant: the next request is issued as soon as the response head is in,
\* the body left unread
ClientRecvResponse_SkipsBody(c) ==
    /\ cl[c].pc = "recv_response"
    /\ conn[c] = "established"
    /\ Len(wire[c][cl[c].k]) >= 1
    /\ wire[c][cl[c].k][1].type = "headers"
    /\ cl[c].k < Len(ClientPaths)
    /\ cl' = [cl EXCEPT ![c].out = cl[c].out \o
                                     <<StatusLine(wire[c][cl[c].k][1].status),
                                       RequestingLine(ClientPaths[cl[c].k + 1])>>,
                        ![c].k = cl[c].k + 1,
                        ![c].pc = "send_request"]
    /\ UNCHANGED <<serverVars, conn, alpn, req, target>>

\* client.rs:55-60 -- stream.recv_response().await is Ok: the response head
\* is the first frame of the stream; its status is printed at once
ClientRecvResponse(c) ==
    /\ cl[c].pc = "recv_response"
    /\ conn[c] = "established"
    /\ Len(wire[c][cl[c].k]) >= 1
    /\ wire[c][cl[c].k][1].type = "headers"
    /\ cl' = [cl EXCEPT ![c].pc = "recv_data",
                        ![c].status = wire[c][cl[c].k][1].status,
                        ![c].out = Append(cl[c].out, StatusLine(wire[c][cl[c].k][1].status)),
                        ![c].body = <<>>,
                        ![c].rd = 1]
    /\ UNCHANGED <<serverVars, conn, alpn, req, target>>

\* client.rs:60-62 -- stream.recv_data().await is Ok(Some(chunk))
ClientRecvChunk(c) ==
    /\ cl[c].pc = "recv_data"
    /\ conn[c] = "established"
    /\ Len(wire[c][cl[c].k]) > cl[c].rd
    /\ wire[c][cl[c].k][cl[c].rd + 1].type = "data"
    /\ cl' = [cl EXCEPT ![c].body = Append(cl[c].body, wire[c][cl[c].k][cl[c].rd + 1].data),
                        ![c].rd = cl[c].rd + 1]
    /\ UNCHANGED <<serverVars, conn, alpn, req, target>>

\* client.rs:44-52,60-64 -- recv_data is Ok(None): print the body, go on to
\* the next path
ClientRecvEnd(c) ==
    /\ cl[c].pc = "recv_data"
    /\ conn[c] = "established"
    /\ Len(wire[c][cl[c].k]) > cl[c].rd
    /\ wire[c][cl[c].k][cl[c].rd + 1].type = "fin"
    /\ cl[c].k < Len(ClientPaths)
    /\ cl' = [cl EXCEPT ![c].out = cl[c].out \o
                                     <<BodyLine(cl[c].body),
                                       RequestingLine(ClientPaths[cl[c].k + 1])>>,
                        ![c].k = cl[c].k + 1,
                        ![c].pc = "send_request"]
    /\ UNCHANGED <<serverVars, conn, alpn, req, target>>

\* client.rs:60-68 -- the same after the last path: the loop ends, the
\* completion line is printed, main returns Ok(()) and the endpoint is dropped
\* with the connection
ClientDone(c) ==
    /\ cl[c].pc = "recv_data"
    /\ conn[c] = "established"
    /\ Len(wire[c][cl[c].k]) > cl[c].rd
    /\ wire[c][cl[c].k][cl[c].rd + 1].type = "fin"
    /\ cl[c].k = Len(ClientPaths)
    /\ cl' = [cl EXCEPT ![c].out = cl[c].out \o <<BodyLine(cl[c].body), CompletedLine>>,
                        ![c].pc = "done"]
    /\ conn' = [conn EXCEPT ![c] = "closed"]
    /\ UNCHANGED <<serverVars, alpn, req, target>>

ClientAwaits == {"connect", "h3new", "send_request", "finish", "recv_response", "recv_data"}

\* variant: an Err inside the request loop is dropped and the loop goes on
\* with the next path
ClientErr_SkipsRequest(c) ==
    /\ cl[c].pc \in ClientAwaits
    /\ IF cl[c].pc \in {"send_request", "finish", "recv_response", "recv_data"}
          /\ cl[c].k < Len(ClientPaths)
       THEN /\ cl' = [cl EXCEPT ![c].pc = "send_request", ![c].k = cl[c].k + 1]
            /\ conn' = conn
       ELSE /\ cl' = [cl EXCEPT ![c].pc = "error"]
            /\ conn' = [conn EXCEPT ![c] = IF conn[c] = "established"
                                           THEN "closed" ELSE conn[c]]
    /\ UNCHANGED <<serverVars, alpn, req, target>>

\* client.rs:30-60 -- any of the awaits is Err: `?` returns it from main
ClientErr(c) ==
    /\ cl[c].pc \in ClientAwaits
    /\ cl' = [cl EXCEPT ![c].pc = "error"]
    /\ conn' = [conn EXCEPT ![c] = IF conn[c] = "established" THEN "closed" ELSE conn[c]]
    /\ UNCHANGED <<serverVars, alpn, req, target>>

\* ------------------------------------------------- other peers (environment)
PeerPaths == {PathTest, PathTest \o <<"/">>}

IsPeer(c) == cl[c].pc = "none"

NextToOpen(c) == Cardinality({s \in Streams : req[c][s] # "unopened"}) + 1

\* connection attempts made and streams opened so far by peers
PeerOps ==
    Cardinality({c \in Conns : IsPeer(c) /\ conn[c] # "absent"})
    + Cardinality({cs \in Conns \X Streams :
                     IsPeer(cs[1]) /\ req[cs[1]][cs[2]] # "unopened"})

\* a peer that is not the client driver starts a connection attempt
PeerConnect(c, a) ==
    /\ conn[c] = "absent"
    /\ cl[c].pc = "none"
    /\ PeerOps < MaxPeerOps
    /\ \A d \in Conns : d < c => conn[d] # "absent"
    /\ acceptor # "Returned"
    /\ conn' = [conn EXCEPT ![c] = "incoming"]
    /\ alpn' = [alpn EXCEPT ![c] = a]
    /\ incoming' = Append(incoming, c)
    /\ UNCHANGED <<acceptor, hs, session, req, target, xch, rbody, wire, cl>>

\* the peer opens its next stream and sends a complete request for target p
PeerRequest(c, p) ==
    /\ IsPeer(c)
    /\ conn[c] = "established"
    /\ NextToOpen(c) \in Streams
    /\ PeerOps < MaxPeerOps
    /\ req' = [req EXCEPT ![c][NextToOpen(c)] = "sent"]
    /\ target' = [target EXCEPT ![c][NextToOpen(c)] = p]
    /\ UNCHANGED <<serverVars, conn, alpn, cl>>

\* one path for every arm of the route table
RepeatPaths == {PathRoot, PathTest, PathHealth, PathUnknown}

\* the peer opens a further stream on its connection, up to MaxRepeat of them,
\* and sends a complete request for target p
PeerRepeatRequest(c, p) ==
    /\ IsPeer(c)
    /\ conn[c] = "established"
    /\ NextToOpen(c) <= MaxRepeat
    /\ NextToOpen(c) \in Streams
    /\ req' = [req EXCEPT ![c][NextToOpen(c)] = "sent"]
    /\ target' = [target EXCEPT ![c][NextToOpen(c)] = p]
    /\ UNCHANGED <<serverVars, conn, alpn, cl>>

\* the peer opens its next stream and abandons it before the request head
\* is complete
PeerAbandon(c) ==
    /\ IsPeer(c)
    /\ conn[c] = "established"
    /\ NextToOpen(c) \in Streams
    /\ PeerOps < MaxPeerOps
    /\ req' = [req EXCEPT ![c][NextToOpen(c)] = "abandoned"]
    /\ UNCHANGED <<serverVars, conn, alpn, target, cl>>

\* the peer closes its connection cleanly
PeerClose(c) ==
    /\ IsPeer(c)
    /\ conn[c] = "established"
    /\ conn' = [conn EXCEPT ![c] = "closed"]
    /\ UNCHANGED <<serverVars, alpn, req, target, cl>>

\* ------------------------------------------------------------ specification
Next ==
    \/ \E c \in Conns : AcceptConn(c)
    \/ AcceptConnNone
    \/ \E c \in Conns : HandshakeOk(c)
    \/ \E c \in Conns : HandshakeErr(c)
    \/ \E c \in Conns : NegotiateOk(c)
    \/ \E c \in Conns : NegotiateErr(c)
    \/ \E c \in Conns : AcceptStream(c)
    \/ \E c \in Conns : AcceptNone(c)
    \/ \E c \in Conns : AcceptErr(c)
    \/ \E c \in Conns, s \in Streams : ResolveOk(c, s)
    \/ \E c \in Conns, s \in Streams : ResolveErr(c, s)
    \/ \E c \in Conns, s \in Streams : Route(c, s)
    \/ \E c \in Conns, s \in Streams : SendResponseOk(c, s)
    \/ \E c \in Conns, s \in Streams : SendResponseErr(c, s)
    \/ \E c \in Conns, s \in Streams : SendDataOk(c, s)
    \/ \E c \in Conns, s \in Streams : SendDataErr(c, s)
    \/ \E c \in Conns, s \in Streams : FinishOk(c, s)
    \/ \E c \in Conns, s \in Streams : FinishErr(c, s)
    \/ \E c \in Conns, a \in PeerAlpns : PeerConnect(c, a)
    \/ \E c \in Conns, p \in PeerPaths : PeerRequest(c, p)
    \/ \E c \in Conns : PeerAbandon(c)
    \/ \E c \in Conns : PeerClose(c)

Spec == Init /\ [][Next]_vars

\* The client drivers against the server, every await Ok and the server's
\* endpoint open throughout.
ClientNext ==
    \/ \E c \in Conns : ClientConnect(c)
    \/ \E c \in Conns : AcceptConn(c)
    \/ \E c \in Conns : HandshakeOk(c)
    \/ \E c \in Conns : ClientConnected(c)
    \/ \E c \in Conns : NegotiateOk(c)
    \/ \E c \in Conns : ClientH3New(c)
    \/ \E c \in Conns : ClientSendRequest(c)
    \/ \E c \in Conns : ClientFinish(c)
    \/ \E c \in Conns : AcceptStream(c)
    \/ \E c \in Conns, s \in Streams : ResolveOk(c, s)
    \/ \E c \in Conns, s \in Streams : Route(c, s)
    \/ \E c \in Conns, s \in Streams : SendResponseOk(c, s)
    \/ \E c \in Conns, s \in Streams : SendDataOk(c, s)
    \/ \E c \in Conns, s \in Streams : FinishOk(c, s)
    \/ \E c \in Conns : ClientRecvResponse(c)
    \/ \E c \in Conns : ClientRecvChunk(c)
    \/ \E c \in Conns : ClientRecvEnd(c)
    \/ \E c \in Conns : ClientDone(c)
    \/ \E c \in Conns : AcceptNone(c)

ClientSpec == Init /\ [][ClientNext]_vars

\* One client driver against the server, every await Ok or Err.
SoloNext ==
    \/ ClientConnect(1)
    \/ \E c \in Conns : AcceptConn(c)
    \/ AcceptConnNone
    \/ \E c \in Conns : HandshakeOk(c)
    \/ \E c \in Conns : HandshakeErr(c)
    \/ \E c \in Conns : ClientConnected(c)
    \/ \E c \in Conns : NegotiateOk(c)
    \/ \E c \in Conns : NegotiateErr(c)
    \/ \E c \in Conns : ClientH3New(c)
    \/ \E c \in Conns : ClientSendRequest(c)
    \/ \E c \in Conns : ClientFinish(c)
    \/ \E c \in Conns : AcceptStream(c)
    \/ \E c \in Conns : AcceptNone(c)
    \/ \E c \in Conns : AcceptErr(c)
    \/ \E c \in Conns, s \in Streams : ResolveOk(c, s)
    \/ \E c \in Conns, s \in Streams : ResolveErr(c, s)
    \/ \E c \in Conns, s \in Streams : Route(c, s)
    \/ \E c \in Conns, s \in Streams : SendResponseOk(c, s)
    \/ \E c \in Conns, s \in Streams : SendResponseErr(c, s)
    \/ \E c \in Conns, s \in Streams : SendDataOk(c, s)
    \/ \E c \in Conns, s \in Streams : SendDataErr(c, s)
    \/ \E c \in Conns, s \in Streams : FinishOk(c, s)
    \/ \E c \in Conns, s \in Streams : FinishErr(c, s)
    \/ \E c \in Conns : ClientRecvResponse(c)
    \/ \E c \in Conns : ClientRecvChunk(c)
    \/ \E c \in Conns : ClientRecvEnd(c)
    \/ \E c \in Conns : ClientDone(c)
    \/ \E c \in Conns : ClientErr(c)

SoloSpec == Init /\ [][SoloNext]_vars

\* One peer on one connection asks for paths of the route table, any of them
\* any number of times up to MaxRepeat requests, while the exchanges of its
\* earlier requests are still running or have finished, every await Ok.
RepeatNext ==
    \/ PeerConnect(1, ClientAlpn)
    \/ \E c \in Conns : AcceptConn(c)
    \/ \E c \in Conns : HandshakeOk(c)
    \/ \E c \in Conns : NegotiateOk(c)
    \/ \E c \in Conns, p \in RepeatPaths : PeerRepeatRequest(c, p)
    \/ \E c \in Conns : AcceptStream(c)
    \/ \E c \in Conns, s \in Streams : ResolveOk(c, s)
    \/ \E c \in Conns, s \in Streams : Route(c, s)
    \/ \E c \in Conns, s \in Streams : SendResponseOk(c, s)
    \/ \E c \in Conns, s \in Streams : SendDataOk(c, s)
    \/ \E c \in Conns, s \in Streams : FinishOk(c, s)

RepeatSpec == Init /\ [][RepeatNext]_vars

\* One accepted request stream, its target drawn from RouteTargets: the
\* exchange task of main.rs:37-59 applied to every target.
RouteChars == {"/", "t", "T", "?"}

RECURSIVE SeqsUpTo(_, _)
SeqsUpTo(S, n) ==
    IF n = 0 THEN {<<>>}
    ELSE LET shorter == SeqsUpTo(S, n - 1)
         IN  shorter \cup {Append(q, x) : q \in shorter, x \in S}

RouteTargets ==
    (SeqsUpTo(RouteChars, MaxPathLen) \ {<<>>})
    \cup {PathRoot, PathTest, PathHealth, PathUnknown,
          PathTest \o <<"/">>, PathHealth \o <<"/">>,
          <<"/", "T", "e", "s", "t">>, <<"/", "T", "E", "S", "T">>,
          <<"/", "H", "e", "a", "l", "t", "h">>,
          <<"/", "t", "e", "s", "t", "?", "q">>,
          <<"/", "t", "e", "s">>, <<"/", "t", "e", "s", "t", "s">>,
          <<"/", "/", "t", "e", "s", "t">>}

RouteInit ==
    /\ acceptor = "Accepting"
    /\ hs = 0
    /\ incoming = <<>>
    /\ conn = [c \in Conns |-> IF c = 1 THEN "established" ELSE "absent"]
    /\ alpn = [c \in Conns |-> IF c = 1 THEN {"h3"} ELSE {}]
    /\ session = [c \in Conns |-> IF c = 1 THEN "Active" ELSE "none"]
    /\ \E p \in RouteTargets :
         target = [c \in Conns |-> [s \in Streams |->
                  IF c = 1 /\ s = 1 THEN p ELSE <<>>]]
    /\ req = [c \in Conns |-> [s \in Streams |->
                IF c = 1 /\ s = 1 THEN "sent" ELSE "unopened"]]
    /\ xch = [c \in Conns |-> [s \in Streams |->
                IF c = 1 /\ s = 1 THEN "Resolving" ELSE "none"]]
    /\ rbody = [c \in Conns |-> [s \in Streams |-> ""]]
    /\ wire = [c \in Conns |-> [s \in Streams |-> <<>>]]
    /\ cl = [c \in Conns |-> NoClient]

RouteNext ==
    \/ \E c \in Conns, s \in Streams : ResolveOk(c, s)
    \/ \E c \in Conns, s \in Streams : ResolveErr(c, s)
    \/ \E c \in Conns, s \in Streams : Route(c, s)
    \/ \E c \in Conns, s \in Streams : SendResponseOk(c, s)
    \/ \E c \in Conns, s \in Streams : SendResponseErr(c, s)
    \/ \E c \in Conns, s \in Streams : SendDataOk(c, s)
    \/ \E c \in Conns, s \in Streams : SendDataErr(c, s)
    \/ \E c \in Conns, s \in Streams : FinishOk(c, s)
    \/ \E c \in Conns, s \in Streams : FinishErr(c, s)

RouteSpec == RouteInit /\ [][RouteNext]_vars

\* Peers that open request streams concurrently, every await Ok, the tasks
\* scheduled fairly: tokio polls every spawned task that is ready.
AllAnswered(c) ==
    \A s \in Streams : req[c][s] # "unopened" => xch[c][s] = "Finished"

PeerCloseIdle(c) ==
    /\ AllAnswered(c)
    /\ PeerClose(c)

MainStep == \E c \in Conns : AcceptConn(c) \/ HandshakeOk(c)

SessionStep(c) == NegotiateOk(c) \/ AcceptStream(c) \/ AcceptNone(c)

ExchangeStep(c, s) ==
    \/ ResolveOk(c, s)
    \/ Route(c, s)
    \/ SendResponseOk(c, s)
    \/ SendDataOk(c, s)
    \/ FinishOk(c, s)

LiveNext ==
    \/ \E c \in Conns : PeerConnect(c, ClientAlpn)
    \/ \E c \in Conns, p \in PeerPaths : PeerRequest(c, p)
    \/ \E c \in Conns : PeerCloseIdle(c)
    \/ MainStep
    \/ \E c \in Conns : SessionStep(c)
    \/ \E c \in Conns, s \in Streams : ExchangeStep(c, s)

LiveSpec ==
    /\ Init
    /\ [][LiveNext]_vars
    /\ WF_vars(MainStep)
    /\ \A c \in Conns : WF_vars(SessionStep(c))
    /\ \A c \in Conns, s \in Streams : WF_vars(ExchangeStep(c, s))

\* ------------------------------------------------------------------ claims
IsPrefix(a, b) == Len(a) <= Len(b) /\ a = SubSeq(b, 1, Len(a))

\* the complete response to a request for target u
ResponseFor(u) == <<HeadersFrame, DataFrame(RouteBody(PathOf(u))), FinFrame>>

FrameTypes(w) == [i \in 1..Len(w) |-> w[i].type]

\* C1: a failed handshake discards that attempt only: the acceptor keeps
\* listening and no session, exchange or other connection changes.
C1_HandshakeFailureIsolated ==
    [][\A c \in Conns :
         (conn[c] = "handshaking" /\ conn'[c] = "failed")
         => /\ acceptor' = "Accepting"
            /\ session' = session
            /\ xch' = xch
            /\ \A d \in Conns \ {c} : conn'[d] = conn[d]]_vars

\* C2: a session that ends on an error of its own (negotiation, stream
\* accept) leaves the acceptor, the endpoint queue and every other
\* connection's session, exchanges and streams exactly as they were.
C2_SessionErrorIsolated ==
    [][\A c \in Conns :
         (session[c] \in LiveSession /\ session'[c] \in {"Panicked", "Closed"})
         => /\ acceptor' = acceptor
            /\ hs' = hs
            /\ incoming' = incoming
            /\ \A d \in Conns \ {c} :
                 /\ session'[d] = session[d]
                 /\ conn'[d] = conn[d]
                 /\ xch'[d] = xch[d]
                 /\ wire'[d] = wire[d]]_vars

\* a session has panicked in negotiation while the acceptor is listening and
\* another session, still Active, has answered a request in full
C2_Witness ==
    \E c, d \in Conns :
        /\ c # d
        /\ session[c] = "Panicked"
        /\ session[d] = "Active"
        /\ acceptor = "Accepting"
        /\ xch[d][1] = "Finished"
        /\ wire[d][1] = ResponseFor(target[d][1])

\* C3: an exchange that fails changes nothing but itself: its session, the
\* acceptor, the connection and every other exchange and stream stay as they
\* were; and every exchange that finishes has written the full response to
\* its own request.
C3_ExchangeErrorIsolated ==
    [][/\ \A c \in Conns, s \in Streams :
            (xch[c][s] \in LiveExchange /\ xch'[c][s] = "Failed")
            => /\ session' = session
               /\ acceptor' = acceptor
               /\ conn' = conn
               /\ \A d \in Conns, r \in Streams :
                    <<d, r>> # <<c, s>>
                    => xch'[d][r] = xch[d][r] /\ wire'[d][r] = wire[d][r]
       /\ \A c \in Conns, s \in Streams :
            xch'[c][s] = "Finished" => wire'[c][s] = ResponseFor(target'[c][s])]_vars

\* on one connection an abandoned request has failed its exchange, the
\* session is still Active, and a later stream was answered in full
C3_Witness ==
    \E c \in Conns, s, r \in Streams :
        /\ s < r
        /\ req[c][s] = "abandoned"
        /\ xch[c][s] = "Failed"
        /\ session[c] = "Active"
        /\ req[c][r] = "sent"
        /\ xch[c][r] = "Finished"
        /\ wire[c][r] = ResponseFor(target[c][r])

\* C4: when the acceptor stops (main returns), no session and no exchange
\* is cancelled: they all stay as they were at that moment.
C4_StopCancelsNothing ==
    [][(acceptor # "Returned" /\ acceptor' = "Returned")
       => (session' = session /\ xch' = xch)]_vars

\* C5: whenever a connection attempt is waiting at the endpoint and main has
\* not returned, the acceptor can take it.
C5_AcceptorNeverWaits ==
    \A c \in Conns :
        (acceptor # "Returned" /\ incoming # <<>> /\ c = Head(incoming))
        => ENABLED AcceptConn(c)

\* the lines of one kind among those printed, in order
Printed(o, kind) == SelectSeq(o, LAMBDA e : e.line = kind)

\* the responses client c has read to the end and printed
BodiesPrinted(c) == Len(Printed(cl[c].out, "Body"))

\* what a complete run of the client prints
ExpectedOutput ==
    <<ConnectingLine, ConnectedLine,
      RequestingLine(PathRoot), StatusLine(200),
      BodyLine(<<"Hello from http3 server">>),
      RequestingLine(PathTest), StatusLine(200),
      BodyLine(<<"Hello from http3 test endpoint">>),
      RequestingLine(PathHealth), StatusLine(200),
      BodyLine(<<"hello from http3 health check">>),
      RequestingLine(PathUnknown), StatusLine(200),
      BodyLine(<<"404 Not Found">>),
      CompletedLine>>

\* C6: what the client prints is a beginning of: for each of the four fixed
\* paths in order, the path, status 200 and the route table's literal for
\* that path; a finished run has printed all of it.
C6_FixedRequests ==
    LET expected == ExpectedOutput
    IN  \A c \in Conns :
            /\ IsPrefix(cl[c].out, expected)
            /\ cl[c].pc = "done" => cl[c].out = expected

\* a client has finished its run
C6_Witness == \E c \in Conns : cl[c].pc = "done" /\ BodiesPrinted(c) = 4

\* C7: once an exchange has routed, its body is "404 Not Found" unless the
\* request path is exactly "/", "/test" or "/health", which get three other,
\* pairwise distinct bodies; every response head carries status 200, every
\* body frame carries that body, and routing is always able to proceed.
C7_ExactMatchRouting ==
    LET exact == {PathRoot, PathTest, PathHealth}
        routed == {"SendResponse", "SendData", "Finish", "Finished"}
    IN  /\ \A p, q \in exact :
              /\ RouteBody(p) # "404 Not Found"
              /\ p # q => RouteBody(p) # RouteBody(q)
        /\ \A c \in Conns, s \in Streams :
              LET path == PathOf(target[c][s]) IN
              /\ xch[c][s] = "Routing" => ENABLED Route(c, s)
              /\ xch[c][s] \in routed =>
                    /\ path \notin exact => rbody[c][s] = "404 Not Found"
                    /\ path \in exact => rbody[c][s] = RouteBody(path)
              /\ \A i \in 1..Len(wire[c][s]) :
                    /\ wire[c][s][i].type = "headers" => wire[c][s][i].status = 200
                    /\ wire[c][s][i].type = "data" => wire[c][s][i].data = rbody[c][s]

\* a path that differs from "/test" by a trailing slash only, or by case
\* only, was answered in full with the not-found body
C7_Witness ==
    \E c \in Conns, s \in Streams :
        /\ PathOf(target[c][s]) \in {PathTest \o <<"/">>, <<"/", "T", "e", "s", "t">>}
        /\ xch[c][s] = "Finished"
        /\ wire[c][s][1].status = 200
        /\ wire[c][s][2].data = "404 Not Found"

\* frames an exchange at position x has written
Written(x) ==
    CASE x = "SendData" -> 1
      [] x = "Finish"   -> 2
      [] x = "Finished" -> 3
      [] OTHER          -> 0

\* C8: with any number of clients running at once, every stream of every
\* connection that was ever attempted carries
\* exactly what its own exchange has written so far of the response to its
\* own request, and every client has printed, and is reading, the responses
\* to its own requests only (the k-th request's status and body are the
\* second and third of its three lines, after the two lines of connecting).
C8_ConnectionsIsolated ==
    \A c \in {d \in Conns : conn[d] # "absent"} :
        /\ \A s \in Streams :
              /\ wire[c][s] # <<>> => IsPrefix(wire[c][s], ResponseFor(target[c][s]))
              /\ Len(wire[c][s]) = Written(xch[c][s])
        /\ LET o == cl[c].out
           IN  \A k \in 1..Len(ClientPaths) :
                   /\ Len(o) >= 3 * k + 1 => o[3 * k + 1] = StatusLine(200)
                   /\ Len(o) >= 3 * k + 2
                      => o[3 * k + 2] = BodyLine(<<RouteBody(ClientPaths[k])>>)
        /\ cl[c].pc = "recv_data" =>
              IsPrefix(cl[c].body, <<RouteBody(ClientPaths[cl[c].k])>>)

\* all the clients have run concurrently and finished
C8_Witness ==
    /\ MaxClients >= 2
    /\ \A c \in 1..MaxClients : cl[c].pc = "done" /\ cl[c].out[Len(cl[c].out)] = CompletedLine

\* C9: with no failing step and fair scheduling, every request stream a peer
\* has opened is eventually Finished with the full response to its own path
\* on it.
C9_AllStreamsComplete ==
    \A c \in Conns, s \in Streams :
        (req[c][s] = "sent")
        ~> (xch[c][s] = "Finished" /\ wire[c][s] = ResponseFor(target[c][s]))

\* two streams of one connection with different paths are in flight at once,
\* and the later one is Finished while the earlier one is not
C9_Witness ==
    \E c \in Conns, s, r \in Streams :
        /\ s < r
        /\ target[c][s] # target[c][r]
        /\ xch[c][s] \in LiveExchange
        /\ xch[c][r] = "Finished"
        /\ wire[c][r] = ResponseFor(target[c][r])

\* C10: what is written on a stream is, in order, a beginning of: response
\* head, body, finish.
C10_WriteOrder ==
    \A c \in Conns, s \in Streams :
        IsPrefix(FrameTypes(wire[c][s]), <<"headers", "data", "fin">>)

\* a stream carries all three writes
C10_Witness ==
    \E c \in Conns, s \in Streams : Len(wire[c][s]) = 3


\* client c has printed the body of its k-th response, the last of the three
\* lines of request k, which follow the two lines of connecting
BodyPrinted(c, k) ==
    /\ Len(cl[c].out) >= 3 * k + 2
    /\ cl[c].out[3 * k + 2].line = "Body"

\* C11: a client never has more than one request stream whose response it
\* has not read to the end, and a stream is opened only when every earlier
\* stream carries its finished response and the client has read it all.
C11_SequentialRequests ==
    \A c \in Conns :
        /\ Cardinality({s \in Streams :
                          req[c][s] # "unopened" /\ ~BodyPrinted(c, s)}) <= 1
        /\ \A s \in Streams :
              (s > 1 /\ req[c][s] # "unopened")
              => /\ BodyPrinted(c, s - 1)
                 /\ Len(wire[c][s - 1]) = 3
                 /\ wire[c][s - 1][3].type = "fin"
                 /\ cl[c].k >= s

\* a client has its second stream open, the first one read to the end
C11_Witness ==
    \E c \in Conns :
        /\ req[c][2] # "unopened"
        /\ cl[c].pc \in {"finish", "recv_response", "recv_data"}
        /\ cl[c].k = 2
        /\ BodyPrinted(c, 1)
        /\ ~BodyPrinted(c, 2)


\* the await the client is at can only be Err: its connection is gone, or
\* the exchange behind the stream it reads has ended with nothing left to read
CannotSucceed(c) ==
    \/ conn[c] \in {"failed", "closed"}
    \/ /\ cl[c].pc = "recv_response"
       /\ xch[c][cl[c].k] \in {"Failed", "Cancelled"}
       /\ wire[c][cl[c].k] = <<>>
    \/ /\ cl[c].pc = "recv_data"
       /\ xch[c][cl[c].k] \in {"Failed", "Cancelled"}
       /\ Len(wire[c][cl[c].k]) <= cl[c].rd

\* C12: a client whose await can only fail ends in error at its next step,
\* having printed and issued nothing more; once in error it never moves
\* again (no request, no output); and the run is reported complete, and the
\* completion line printed, only by the step that reads the end of the fourth
\* response.
C12_ClientFailureAborts ==
    [][\A c \in Conns :
         /\ (cl[c].pc \in ClientAwaits /\ CannotSucceed(c) /\ cl'[c] # cl[c])
            => /\ cl'[c].pc = "error"
               /\ cl'[c].out = cl[c].out
               /\ req'[c] = req[c]
         /\ cl[c].pc = "error"
            => /\ cl'[c] = cl[c]
               /\ req'[c] = req[c]
               /\ target'[c] = target[c]
         /\ (cl'[c].pc = "done" /\ cl[c].pc # "done")
            => (cl[c].pc = "recv_data" /\ Len(Printed(cl'[c].out, "Body")) = Len(ClientPaths))
         /\ Printed(cl'[c].out, "Completed") # <<>>
            => cl'[c].pc = "done"]_vars

\* a client has failed in the middle of its run: some responses printed, not
\* all, and no stream opened beyond the one that failed
C12_Witness ==
    \E c \in Conns :
        /\ cl[c].pc = "error"
        /\ BodiesPrinted(c) \in 1..3
        /\ req[c][cl[c].k] # "unopened"
        /\ \A s \in Streams : s > cl[c].k => req[c][s] = "unopened"


\* C13: two requests for the same target on one connection get the same
\* response, for every arm of the route table and whatever other exchanges
\* of the connection run before, between or alongside them: what each
\* exchange has written so far agrees frame by frame (status, content type,
\* body bytes, finish), and two finished ones are equal.
C13_SameRequestSameResponse ==
    \A c \in Conns, s, r \in Streams :
        (s # r /\ target[c][s] # <<>> /\ target[c][s] = target[c][r])
        => /\ \A i \in 1..Len(wire[c][s]) :
                 i <= Len(wire[c][r]) => wire[c][s][i] = wire[c][r][i]
           /\ (xch[c][s] = "Finished" /\ xch[c][r] = "Finished")
              => wire[c][s] = wire[c][r]

\* on one connection a path was asked for, then a different path, then the
\* first path again; the first was answered in full and the other two
\* exchanges are both in the middle of responding, the repeat behind or ahead
\* of the one in between
C13_Witness ==
    \E c \in Conns, s, r, t \in Streams :
        /\ s < r
        /\ r < t
        /\ target[c][s] = target[c][t]
        /\ target[c][r] # target[c][s]
        /\ target[c][r] \in RepeatPaths
        /\ RouteBody(PathOf(target[c][r])) # RouteBody(PathOf(target[c][s]))
        /\ xch[c][s] = "Finished"
        /\ ExchangeState(xch[c][r]) = "Responding"
        /\ ExchangeState(xch[c][t]) = "Responding"
        /\ Len(wire[c][s]) = 3
        /\ Len(wire[c][t]) = 2

\* a session task that is no more: it broke out of its loop, panicked in
\* negotiation, or was dropped with the runtime
SessionEnded == {"Closed", "Panicked", "Cancelled"}

\* C14: a session starts Negotiating, becomes Active only from Negotiating,
\* and becomes Closed only from Active; a stream is accepted only by a session
\* that is Active and stays Active; a session that has ended never changes
\* again and no stream of its connection is accepted after that.
C14_SessionLifecycle ==
    [][\A c \in Conns :
         /\ session'[c] # session[c]
            => \/ session[c] = "none" /\ session'[c] = "Negotiating"
               \/ session[c] = "Negotiating" /\ session'[c] \in {"Active", "Panicked"}
               \/ session[c] = "Active" /\ session'[c] = "Closed"
               \/ session[c] \in LiveSession /\ session'[c] = "Cancelled"
                    /\ acceptor' = "Returned"
         /\ \A s \in Streams :
              (xch[c][s] = "none" /\ xch'[c][s] # "none")
              => /\ session[c] = "Active"
                 /\ session'[c] = "Active"
                 /\ xch'[c][s] = "Resolving"
         /\ session[c] \in SessionEnded
            => /\ session'[c] = session[c]
               /\ \A s \in Streams : xch[c][s] = "none" => xch'[c][s] = "none"]_vars

\* a session has accepted a stream, then left its loop and is Closed, while
\* the peer had opened a further stream that was never accepted
C14_Witness ==
    \E c \in Conns :
        /\ session[c] = "Closed"
        /\ xch[c][1] # "none"
        /\ req[c][2] # "unopened"
        /\ xch[c][2] = "none"

\* C15: an exchange moves one step at a time through Resolving, Routing,
\* the three writes of Responding, and Finished, never skipping or repeating
\* one; from any of these it may go straight to Failed; it becomes Finished
\* only by the finish write that completes head, body, finish on its stream;
\* Finished and Failed never change again.
C15_ExchangeLifecycle ==
    [][\A c \in Conns, s \in Streams :
         /\ xch'[c][s] # xch[c][s]
            => \/ xch[c][s] = "none" /\ xch'[c][s] = "Resolving"
               \/ xch[c][s] = "Resolving" /\ xch'[c][s] = "Routing"
               \/ xch[c][s] = "Routing" /\ xch'[c][s] = "SendResponse"
               \/ xch[c][s] = "SendResponse" /\ xch'[c][s] = "SendData"
               \/ xch[c][s] = "SendData" /\ xch'[c][s] = "Finish"
               \/ /\ xch[c][s] = "Finish"
                  /\ xch'[c][s] = "Finished"
                  /\ FrameTypes(wire[c][s]) = <<"headers", "data">>
                  /\ FrameTypes(wire'[c][s]) = <<"headers", "data", "fin">>
               \/ xch[c][s] \in LiveExchange /\ xch'[c][s] = "Failed"
               \/ xch[c][s] \in LiveExchange /\ xch'[c][s] = "Cancelled"
                    /\ acceptor' = "Returned"
         /\ xch[c][s] \in {"Finished", "Failed"}
            => /\ xch'[c][s] = xch[c][s]
               /\ wire'[c][s] = wire[c][s]
               /\ rbody'[c][s] = rbody[c][s]
         /\ ExchangeState(xch[c][s]) = "Responding"
            => ExchangeState(xch'[c][s]) \in {"Responding", "Finished", "Failed", "Cancelled"}]_vars

\* one connection holds an exchange that is Finished and one that Failed in
\* the middle of Responding
C15_Witness ==
    \E c \in Conns, s, r \in Streams :
        /\ xch[c][s] = "Finished"
        /\ xch[c][r] = "Failed"
        /\ Len(wire[c][r]) \in {1, 2}


\* C16: an Active session whose peer has opened a stream it has not yet
\* accepted can accept it at once, whatever its earlier exchanges are doing.
C16_AcceptNeverWaitsForExchange ==
    \A c \in Conns :
        ( /\ session[c] = "Active"
          /\ conn[c] = "established"
          /\ NextStream(c) \in Streams
          /\ req[c][NextStream(c)] # "unopened" )
        => ENABLED AcceptStream(c)

\* two exchanges of one connection are unfinished at the same time
C16_Witness ==
    \E c \in Conns, s, r \in Streams :
        /\ s < r
        /\ xch[c][s] \in LiveExchange
        /\ xch[c][r] \in LiveExchange

\* C17: nothing is on a stream while its exchange is Resolving; an exchange
\* that fails there leaves the stream empty; and an exchange that Failed
\* before any body was chosen stays Failed with its stream empty for ever.
C17_ResolveFailureSilent ==
    [][\A c \in Conns, s \in Streams :
         /\ xch[c][s] = "Resolving" => wire[c][s] = <<>>
         /\ xch'[c][s] = "Resolving" => wire'[c][s] = <<>>
         /\ (xch[c][s] = "Resolving" /\ xch'[c][s] = "Failed")
            => wire'[c][s] = <<>>
         /\ (xch[c][s] = "Failed" /\ rbody[c][s] = "")
            => /\ wire[c][s] = <<>>
               /\ wire'[c][s] = <<>>
               /\ xch'[c][s] = "Failed"
               /\ rbody'[c][s] = ""]_vars

\* an exchange failed before routing; its stream, which the peer did open,
\* carries nothing
C17_Witness ==
    \E c \in Conns, s \in Streams :
        /\ xch[c][s] = "Failed"
        /\ rbody[c][s] = ""
        /\ req[c][s] # "unopened"
        /\ wire[c][s] = <<>>

\* C18: an established connection has a live session and a session exists
\* only for a connection that completed its handshake; a stream is accepted
\* only by a step in which the session of its own connection is Active; a
\* stream is written only by a step of its own exchange, which is then in
\* Responding, and no step writes two streams; a body is chosen only by the
\* stream's own exchange from its own request.
C18_ExclusiveOwnership ==
    [][\A c \in Conns :
         /\ conn[c] = "established" => session[c] \in LiveSession
         /\ conn'[c] = "established" => session'[c] \in LiveSession
         /\ session[c] # "none" => conn[c] \in {"established", "closed"}
         /\ session'[c] # "none" => conn'[c] \in {"established", "closed"}
         /\ \A s \in Streams :
              /\ (xch[c][s] = "none" /\ xch'[c][s] # "none")
                 => /\ session[c] = "Active"
                    /\ s = NextStream(c)
                    /\ \A d \in Conns \ {c} : xch'[d] = xch[d]
              /\ wire'[c][s] # wire[c][s]
                 => /\ ExchangeState(xch[c][s]) = "Responding"
                    /\ xch'[c][s] # xch[c][s]
                    /\ \A d \in Conns, r \in Streams :
                         <<d, r>> # <<c, s>>
                         => wire'[d][r] = wire[d][r] /\ xch'[d][r] = xch[d][r]
              /\ rbody'[c][s] # rbody[c][s]
                 => /\ xch[c][s] = "Routing"
                    /\ rbody'[c][s] = RouteBody(PathOf(target[c][s]))
                    /\ \A d \in Conns, r \in Streams :
                         <<d, r>> # <<c, s>> => rbody'[d][r] = rbody[d][r]]_vars

\* two exchanges of one Active session have each written on their streams
C18_Witness ==
    \E c \in Conns, s, r \in Streams :
        /\ s # r
        /\ session[c] = "Active"
        /\ wire[c][s] # <<>>
        /\ wire[c][r] # <<>>

\* how far a task has come
XchRank(x) ==
    CASE x = "none"         -> 0
      [] x = "Resolving"    -> 1
      [] x = "Routing"      -> 2
      [] x = "SendResponse" -> 3
      [] x = "SendData"     -> 4
      [] x = "Finish"       -> 5
      [] OTHER              -> 6

SessionRank(x) ==
    CASE x = "none"        -> 0
      [] x = "Negotiating" -> 1
      [] x = "Active"      -> 2
      [] OTHER             -> 3

ReqRank(x) ==
    CASE x = "unopened" -> 0
      [] x = "open"     -> 1
      [] OTHER          -> 2

ClientRank(p) ==
    CASE p = "none"          -> 0
      [] p = "connect"       -> 1
      [] p = "h3new"         -> 2
      [] p = "send_request"  -> 3
      [] p = "finish"        -> 4
      [] p = "recv_response" -> 5
      [] p = "recv_data"     -> 6
      [] OTHER               -> 7

CountType(w, t) == Cardinality({i \in 1..Len(w) : w[i].type = t})

\* C19: no task ever returns to a step it has left: every change of an
\* exchange, a session or a request stream moves it forward; a client moves
\* forward within a request and to the next request only once, from the
\* end of negotiation or of the body before; and a stream never carries more than one response head,
\* one body and one finish.
C19_NothingRetried ==
    [][\A c \in Conns :
         /\ session'[c] # session[c] => SessionRank(session'[c]) > SessionRank(session[c])
         /\ \A s \in Streams :
              /\ xch'[c][s] # xch[c][s] => XchRank(xch'[c][s]) > XchRank(xch[c][s])
              /\ req'[c][s] # req[c][s] => ReqRank(req'[c][s]) > ReqRank(req[c][s])
              /\ \A t \in {"headers", "data", "fin"} : CountType(wire'[c][s], t) <= 1
         /\ cl'[c].pc # cl[c].pc
            => \/ cl'[c].k = cl[c].k /\ ClientRank(cl'[c].pc) > ClientRank(cl[c].pc)
               \/ /\ cl[c].pc \in {"h3new", "recv_data"}
                  /\ cl'[c].pc = "send_request"
                  /\ cl'[c].k = cl[c].k + 1
         /\ cl'[c].k # cl[c].k => cl'[c].k > cl[c].k]_vars

\* an exchange failed at its finish step, with head and body already on the
\* stream, and the client that was reading it has given up
C19_Witness ==
    \E c \in Conns, s \in Streams :
        /\ xch[c][s] = "Failed"
        /\ FrameTypes(wire[c][s]) = <<"headers", "data">>
        /\ cl[c].pc = "error"
        /\ cl[c].k = s

\* C20: a body is written only on a stream that carries the response head
\* and nothing else, a finish only on one that carries head and body; an
\* exchange that fails writes nothing in that step or afterwards, and a
\* stream whose exchange Failed never carries a finish.
C20_WriteFailureStops ==
    [][\A c \in Conns, s \in Streams :
         /\ CountType(wire'[c][s], "data") > CountType(wire[c][s], "data")
            => xch[c][s] = "SendData" /\ wire[c][s] = <<HeadersFrame>>
         /\ CountType(wire'[c][s], "fin") > CountType(wire[c][s], "fin")
            => /\ xch[c][s] = "Finish"
               /\ wire[c][s] = <<HeadersFrame, DataFrame(rbody[c][s])>>
         /\ xch'[c][s] = "Failed"
            => /\ wire'[c][s] = wire[c][s]
               /\ CountType(wire'[c][s], "fin") = 0
               /\ Len(wire'[c][s]) <= 2
         /\ (xch[c][s] = "SendResponse" /\ xch'[c][s] = "Failed")
            => wire'[c][s] = <<>>
         /\ (xch[c][s] = "SendData" /\ xch'[c][s] = "Failed")
            => wire'[c][s] = <<HeadersFrame>>]_vars

\* an exchange failed at the body write: its stream carries the head alone
C20_Witness ==
    \E c \in Conns, s \in Streams :
        /\ xch[c][s] = "Failed"
        /\ rbody[c][s] # ""
        /\ wire[c][s] = <<HeadersFrame>>

====
